---- MODULE Spec2Model ----
(***************************************************************************)
(* Model of the ROX 4.10 feature tooling: the template validators          *)
(* (jira_feature_validator.py and rox_csv_generator.py), the LLM score     *)
(* cache and validate_with_genai, the compliance score, the CSV report,    *)
(* the paging loop of the Jira search, the template comments of            *)
(* ROXFeatureReporter.run, and daily_validation.py.                        *)
(*                                                                         *)
(* Text is modelled at character level: a text is a sequence of            *)
(* one-character strings, so that the regular expressions of the source    *)
(* are evaluated on the characters they see.                               *)
(***************************************************************************)
EXTENDS Integers, Sequences, FiniteSets, TLC

VARIABLES
  tdesc,        \* SpecTemplate: the description under validation (its body choices)
  jres,         \* SpecTemplate: result of JiraFeatureValidator.validate_feature
  rres,         \* SpecTemplate: result of ROXFeatureReporter.validate_feature_template
  comp,         \* SpecScore: the call of calculate_compliance_score
  cache,        \* SpecCache: the files of llm_cache, by fingerprint
  ollama_model, \* SpecCache: self.ollama_model of the running reporter
  last,         \* SpecCache: the latest validate_with_genai call since the cache
                \* was last cleared, as observed
  ncalls,       \* SpecCache: number of validate_with_genai calls so far
  report,       \* SpecReport: the run of generate_csv_report
  sect,         \* SpecSection: one section with a content, and the validators' verdicts
  tscore,       \* SpecTemplateScore: the validity of the six sections and the score
  comments,     \* SpecComments: ROXFeatureReporter.run from the written CSV on
  pager,        \* SpecPages: the paging loop of get_rox_4_10_features
  daily         \* SpecDaily: one call of run_daily_validation

templateVars == <<tdesc, jres, rres>>

cacheVars == <<cache, ollama_model, last, ncalls>>

runVars == <<comments, pager, daily>>

vars ==
  <<tdesc, jres, rres, comp, cache, ollama_model, last, ncalls, report, sect, tscore,
    comments, pager, daily>>

\* Python's None where a text is expected: a sequence that is no text
None == <<"None">>

\* A variable that holds no result yet is <<>>, one holding r is <<r>>
NoResult == <<>>

\* The variables of a part of the program a specification leaves out
TemplateIdle == tdesc = <<>> /\ jres = NoResult /\ rres = NoResult

ScoreIdle == comp = NoResult

ReportIdle == report = NoResult

SectionIdle == sect = NoResult /\ tscore = NoResult

RunIdle == comments = NoResult /\ pager = NoResult /\ daily = NoResult

CacheIdle ==
  cache = <<>> /\ ollama_model = "" /\ last = NoResult /\ ncalls = 0

(***************************************************************************)
(* Characters and strings                                                  *)
(***************************************************************************)
NL == "\n"

UpperCase ==
  <<"A","B","C","D","E","F","G","H","I","J","K","L","M",
    "N","O","P","Q","R","S","T","U","V","W","X","Y","Z">>

LowerCase ==
  <<"a","b","c","d","e","f","g","h","i","j","k","l","m",
    "n","o","p","q","r","s","t","u","v","w","x","y","z">>

UpperToLower ==
  [c \in {UpperCase[i] : i \in DOMAIN UpperCase} |->
      LowerCase[CHOOSE i \in DOMAIN UpperCase : UpperCase[i] = c]]

AlphaChars == {UpperCase[i] : i \in DOMAIN UpperCase} \cup {LowerCase[i] : i \in DOMAIN LowerCase}

\* [A-Z] under re.IGNORECASE
IsAlpha(c) == c \in AlphaChars

\* \s, and the characters str.strip() removes
IsSpace(c) == c \in {" ", NL, "\t", "\r"}

LowerChar(c) == IF c \in DOMAIN UpperToLower THEN UpperToLower[c] ELSE c

\* str.lower()
lower(s) == [i \in 1..Len(s) |-> LowerChar(s[i])]

SetMin(S) == CHOOSE x \in S : \A y \in S : x <= y

SetMax(S) == CHOOSE x \in S : \A y \in S : x >= y

\* str.strip()
strip(s) ==
  LET keep == {i \in 1..Len(s) : ~IsSpace(s[i])}
  IN IF keep = {} THEN <<>> ELSE SubSeq(s, SetMin(keep), SetMax(keep))

\* pat in s
Contains(s, pat) ==
  \E k \in 1..(Len(s) - Len(pat) + 1) : \A i \in 1..Len(pat) : s[k + i - 1] = pat[i]

(***************************************************************************)
(* Literals of the source                                                  *)
(***************************************************************************)
HdrGoalSummary ==
  <<"G","o","a","l"," ","S","u","m","m","a","r","y",":">>

HdrGoalsOutcomes ==
  <<"G","o","a","l","s"," ","a","n","d"," ","e","x","p","e","c","t","e","d"," ","u","s","e",
    "r"," ","o","u","t","c","o","m","e","s",":">>

HdrAcceptanceCriteria ==
  <<"A","c","c","e","p","t","a","n","c","e"," ","C","r","i","t","e","r","i","a",":">>

HdrSuccessCriteria ==
  <<"S","u","c","c","e","s","s"," ","C","r","i","t","e","r","i","a"," ","o","r"," ","K","P",
    "I","s"," ","m","e","a","s","u","r","e","d",":">>

HdrUseCasesOptional ==
  <<"U","s","e"," ","C","a","s","e","s"," ","(","O","p","t","i","o","n","a","l",")",":">>

HdrOutOfScopeOptional ==
  <<"O","u","t"," ","o","f"," ","S","c","o","p","e"," ","(","O","p","t","i","o","n","a","l",
    ")",":">>

PfxUseCases ==
  <<"U","s","e"," ","C","a","s","e","s">>

PfxOutOfScope ==
  <<"O","u","t"," ","o","f"," ","S","c","o","p","e">>

PhYourText ==
  <<"<","y","o","u","r"," ","t","e","x","t"," ","h","e","r","e",">">>

PhAcceptance ==
  <<"<","e","n","t","e","r"," ","g","e","n","e","r","a","l"," ","F","e","a","t","u","r","e",
    " ","a","c","c","e","p","t","a","n","c","e"," ","h","e","r","e",">">>

PhSuccess ==
  <<"<","e","n","t","e","r"," ","s","u","c","c","e","s","s"," ","c","r","i","t","e","r","i",
    "a"," ","a","n","d","/","o","r"," ","K","P","I","s"," ","h","e","r","e",">">>

PhBareYourText ==
  <<"y","o","u","r"," ","t","e","x","t"," ","h","e","r","e">>

PhBareAcceptance ==
  <<"e","n","t","e","r"," ","g","e","n","e","r","a","l"," ","f","e","a","t","u","r","e"," ",
    "a","c","c","e","p","t","a","n","c","e"," ","h","e","r","e">>

PhBareSuccess ==
  <<"e","n","t","e","r"," ","s","u","c","c","e","s","s"," ","c","r","i","t","e","r","i","a",
    " ","a","n","d","/","o","r"," ","k","p","i","s"," ","h","e","r","e">>

(***************************************************************************)
(* The section regular expressions.                                        *)
(*   jira: HEADER \s* (.*?) (?=\n\n[A-Z][^:]*:|$)                          *)
(*   rox : PREFIX [.*?:] \s* (.*?) (?=\n\n(?:[A-Z][^:]*:|$))               *)
(* both under re.DOTALL | re.IGNORECASE, searched with re.search.          *)
(* A position p in 1..Len(text)+1 stands for "just before character p".    *)
(***************************************************************************)
NoMatch == "NoMatch"

\* index of the last ':' of the text, 0 when there is none
LastColon(text) == SetMax({0} \cup {k \in 1..Len(text) : text[k] = ":"})

\* $ without re.MULTILINE: the end, or just before a final newline
AtEnd(text, p) == p = Len(text) + 1 \/ (p = Len(text) /\ text[p] = NL)

\* [A-Z][^:]*: at p, lc the index of the last colon
HeaderWordAt(text, p, lc) == p <= Len(text) /\ IsAlpha(text[p]) /\ lc >= p + 1

BlankLineAt(text, p) == p + 1 <= Len(text) /\ text[p] = NL /\ text[p + 1] = NL

\* (?=\n\n[A-Z][^:]*:|$)
JiraLookahead(text, p, lc) ==
  \/ BlankLineAt(text, p) /\ HeaderWordAt(text, p + 2, lc)
  \/ AtEnd(text, p)

\* (?=\n\n(?:[A-Z][^:]*:|$))
RoxLookahead(text, p, lc) ==
  BlankLineAt(text, p) /\ (HeaderWordAt(text, p + 2, lc) \/ AtEnd(text, p + 2))

\* re.search of one section pattern: the text of group 1, or NoMatch.
\* lit is the literal prefix, lazyColon says whether ".*?:" follows it, rox
\* selects the lookahead. The backtracking order of the engine is kept:
\* leftmost start, shortest ".*?:", longest "\s*", shortest "(.*?)".
re_search(text, lit, lazyColon, rox) ==
  LET n == Len(text)
      lc == LastColon(text)
      ltext == lower(text)
      llit == lower(lit)
      Ends == {p \in 1..(n + 1) :
                 IF rox THEN RoxLookahead(text, p, lc) ELSE JiraLookahead(text, p, lc)}
      WsEnd(c) == SetMin({p \in c..(n + 1) : p = n + 1 \/ ~IsSpace(text[p])})
      Completes(c) == \E p \in Ends : p >= c
      PrefixEnds(s) ==
        IF lazyColon
        THEN {k + 1 : k \in {k \in (s + Len(lit))..n : text[k] = ":"}}
        ELSE {s + Len(lit)}
      LitAt(s) == \A i \in 1..Len(lit) : ltext[s + i - 1] = llit[i]
      Starts == {s \in 1..(n - Len(lit) + 1) :
                   LitAt(s) /\ \E c \in PrefixEnds(s) : Completes(c)}
  IN IF Starts = {} THEN NoMatch
     ELSE LET s == SetMin(Starts)
              c == SetMin({c \in PrefixEnds(s) : Completes(c)})
              g == SetMax({g \in c..WsEnd(c) : Completes(g)})
              e == SetMin({p \in Ends : p >= g})
          IN SubSeq(text, g, e - 1)

(***************************************************************************)
(* jira_feature_validator.py                                               *)
(***************************************************************************)
TEMPLATE_SECTIONS ==
  << [name |-> "goal_summary", header |-> HdrGoalSummary, required |-> TRUE,
      placeholder |-> PhYourText],
     [name |-> "goals_outcomes", header |-> HdrGoalsOutcomes, required |-> TRUE,
      placeholder |-> PhYourText],
     [name |-> "acceptance_criteria", header |-> HdrAcceptanceCriteria, required |-> TRUE,
      placeholder |-> PhAcceptance],
     [name |-> "success_criteria", header |-> HdrSuccessCriteria, required |-> TRUE,
      placeholder |-> PhSuccess],
     [name |-> "use_cases", header |-> HdrUseCasesOptional, required |-> FALSE,
      placeholder |-> PhYourText],
     [name |-> "out_of_scope", header |-> HdrOutOfScopeOptional, required |-> FALSE,
      placeholder |-> PhYourText] >>

\* minimum content length of validate_section
MinContentLength == 10

\* The contents by section index; a description that is None or empty gives
\* the empty dictionary, read back with sections.get(name, '').
extract_template_sections(description) ==
  [i \in DOMAIN TEMPLATE_SECTIONS |->
     IF description = None \/ description = <<>> THEN <<>>
     ELSE LET m == re_search(description, TEMPLATE_SECTIONS[i].header, FALSE, FALSE)
          IN IF m = NoMatch THEN <<>> ELSE strip(m)]

validate_section(section, content) ==
  IF content = <<>> THEN ~section.required
  ELSE IF strip(content) = section.placeholder
          \/ strip(content) \in {PhYourText, PhAcceptance, PhSuccess}
       THEN ~section.required
       ELSE Len(strip(content)) >= MinContentLength

\* validate_feature that counts every invalid section as a required one
validate_feature_CountingAll(description) ==
  LET sections == extract_template_sections(description)
      valid == [i \in DOMAIN TEMPLATE_SECTIONS |->
                  validate_section(TEMPLATE_SECTIONS[i], sections[i])]
      required_missing == Cardinality({i \in DOMAIN TEMPLATE_SECTIONS : ~valid[i]})
  IN [content |-> sections,
      valid |-> valid,
      required_missing |-> required_missing,
      optional_missing |-> 0,
      overall_valid |-> (required_missing = 0)]

validate_feature(description) ==
  LET sections == extract_template_sections(description)
      valid == [i \in DOMAIN TEMPLATE_SECTIONS |->
                  validate_section(TEMPLATE_SECTIONS[i], sections[i])]
      required_missing ==
        Cardinality({i \in DOMAIN TEMPLATE_SECTIONS :
                       ~valid[i] /\ TEMPLATE_SECTIONS[i].required})
      optional_missing ==
        Cardinality({i \in DOMAIN TEMPLATE_SECTIONS :
                       ~valid[i] /\ ~TEMPLATE_SECTIONS[i].required})
  IN [content |-> sections,
      valid |-> valid,
      required_missing |-> required_missing,
      optional_missing |-> optional_missing,
      overall_valid |-> (required_missing = 0)]

(***************************************************************************)
(* rox_csv_generator.py: template validation                               *)
(***************************************************************************)
\* section_patterns: name, required, literal prefix, whether ".*?:" follows
section_patterns ==
  << [name |-> "Goal Summary", required |-> TRUE, lit |-> HdrGoalSummary, lazy |-> FALSE],
     [name |-> "Goals and expected user outcomes", required |-> TRUE,
      lit |-> HdrGoalsOutcomes, lazy |-> FALSE],
     [name |-> "Acceptance Criteria", required |-> TRUE,
      lit |-> HdrAcceptanceCriteria, lazy |-> FALSE],
     [name |-> "Success Criteria or KPIs measured", required |-> TRUE,
      lit |-> HdrSuccessCriteria, lazy |-> FALSE],
     [name |-> "Use Cases", required |-> FALSE, lit |-> PfxUseCases, lazy |-> TRUE],
     [name |-> "Out of Scope", required |-> FALSE, lit |-> PfxOutOfScope, lazy |-> TRUE] >>

required_sections == {i \in DOMAIN section_patterns : section_patterns[i].required}

optional_sections == {i \in DOMAIN section_patterns : ~section_patterns[i].required}

placeholders ==
  {lower(PhYourText), lower(PhAcceptance), lower(PhSuccess),
   PhBareYourText, PhBareAcceptance, PhBareSuccess}

\* len(cleaned) > 10
MeaningfulLength == 10

\* TemplateSection.is_valid
\* is_valid that accepts every content
is_valid_AlwaysValid(required, content) == TRUE

\* is_valid that checks the content of an optional section too
is_valid_Meaningful(required, content) ==
  LET cleaned == lower(strip(content))
  IN IF cleaned = <<>> \/ \E ph \in placeholders : Contains(cleaned, ph)
     THEN FALSE
     ELSE Len(cleaned) > MeaningfulLength

is_valid(required, content) ==
  IF ~required THEN TRUE
  ELSE LET cleaned == lower(strip(content))
       IN IF cleaned = <<>> \/ \E ph \in placeholders : Contains(cleaned, ph)
          THEN FALSE
          ELSE Len(cleaned) > MeaningfulLength

\* The parsed sections: found is FALSE for the empty dictionary returned for
\* a description that is None or empty.
\* parse_template_sections that takes a null description for a text and
\* finds the six sections in it, all empty
parse_template_sections_NullParsed(description) ==
  IF description = <<>>
  THEN [found |-> FALSE, content |-> [i \in DOMAIN section_patterns |-> <<>>]]
  ELSE [found |-> TRUE,
        content |-> [i \in DOMAIN section_patterns |->
           IF description = None THEN <<>>
           ELSE LET m == re_search(description, section_patterns[i].lit,
                                   section_patterns[i].lazy, TRUE)
                IN IF m = NoMatch THEN <<>> ELSE strip(m)]]

parse_template_sections(description) ==
  IF description = None \/ description = <<>>
  THEN [found |-> FALSE, content |-> [i \in DOMAIN section_patterns |-> <<>>]]
  ELSE [found |-> TRUE,
        content |-> [i \in DOMAIN section_patterns |->
           LET m == re_search(description, section_patterns[i].lit,
                              section_patterns[i].lazy, TRUE)
           IN IF m = NoMatch THEN <<>> ELSE strip(m)]]

required_weight == 8

optional_weight == 2

\* a score that takes the optional points off
template_score_OptionalPenalty(required_valid, optional_valid) ==
  (required_valid * required_weight * 10) \div Cardinality(required_sections)
  - (optional_valid * optional_weight * 10) \div Cardinality(optional_sections)

\* a score that gives every section the same weight
template_score_Unweighted(required_valid, optional_valid) ==
  ((required_valid + optional_valid) * 100)
    \div (Cardinality(required_sections) + Cardinality(optional_sections))

\* template_score in tenths: round(required_score + optional_score, 1)
template_score(required_valid, optional_valid) ==
  (required_valid * required_weight * 10) \div Cardinality(required_sections)
  + (optional_valid * optional_weight * 10) \div Cardinality(optional_sections)

validate_feature_template(description) ==
  LET parsed == parse_template_sections(description)
      valid == [i \in DOMAIN section_patterns |->
                  is_valid(section_patterns[i].required, parsed.content[i])]
      rv == Cardinality({i \in required_sections : valid[i]})
      ov == Cardinality({i \in optional_sections : valid[i]})
  IN [sections |-> [i \in DOMAIN section_patterns |->
                      [present |-> parsed.found, valid |-> valid[i],
                       content_length |-> Len(parsed.content[i])]],
      required_sections_valid |-> rv,
      optional_sections_valid |-> ov,
      missing_required |-> SelectSeq(<<1, 2, 3, 4>>, LAMBDA i : ~valid[i]),
      template_score |-> template_score(rv, ov)]

(***************************************************************************)
(* rox_csv_generator.py: compliance score                                  *)
(*                                                                         *)
(* Scores are exact rationals in hundredths; template_score comes in       *)
(* tenths. The source computes in IEEE-754 doubles and rounds with         *)
(* Python's round(), which rounds an exact half to the even neighbour.     *)
(***************************************************************************)
\* GenAIValidationResult sub-scores are on a 1-5 scale
ScoreMin == 1

ScoreMax == 5

SubScores == ScoreMin..ScoreMax

\* engineering, clarity, completeness, implementability, overall
GenAIValidationResult == [1..5 -> SubScores]

template_weight == 4

assignment_weight == 2

llm_weight == 3

label_weight == 1

BoolInt(b) == IF b THEN 1 ELSE 0

SumScores(g) == g[1] + g[2] + g[3] + g[4] + g[5]

\* The exact value of score before rounding, in hundredths
ExactScore100(ts10, pm, asg, g, label) ==
  template_weight * ts10
  + ((BoolInt(pm) + BoolInt(asg)) * 100 * assignment_weight) \div 2
  + (llm_weight * 5 * (SumScores(g) - 5))
  + BoolInt(label) * 100 * label_weight

\* The double computed by the source equals the exact value on every input
\* whose exact value is a half, except that for template_score 1.0 and
\* sub-scores summing to 19 the LLM term is 2.0999999999999996 and the sum
\* stays one ulp below 2.5 or 3.5 (at 4.5 the addition rounds it back).
FloatBelowHalf(ts10, pm, asg, g, label) ==
  ts10 = 10 /\ SumScores(g) = 19 /\ BoolInt(pm) + BoolInt(asg) + BoolInt(label) <= 1

\* round(score): nearest integer, an exact half to the even neighbour
PyRound(x100, below) ==
  LET q == x100 \div 100
      r == x100 % 100
  IN IF r < 50 THEN q
     ELSE IF r > 50 THEN q + 1
     ELSE IF below THEN q
     ELSE IF q % 2 = 0 THEN q ELSE q + 1

Min2(a, b) == IF a <= b THEN a ELSE b

Max2(a, b) == IF a >= b THEN a ELSE b

\* calculate_compliance_score with int(score) in place of round(score)
calculate_compliance_score_Truncating(ts10, pm, asg, g, label) ==
  Max2(1, Min2(10, ExactScore100(ts10, pm, asg, g, label) \div 100))

\* calculate_compliance_score without the lower clamp
calculate_compliance_score_NoFloor(ts10, pm, asg, g, label) ==
  Min2(10, PyRound(ExactScore100(ts10, pm, asg, g, label),
                   FloatBelowHalf(ts10, pm, asg, g, label)))

calculate_compliance_score(ts10, pm, asg, g, label) ==
  Max2(1, Min2(10, PyRound(ExactScore100(ts10, pm, asg, g, label),
                           FloatBelowHalf(ts10, pm, asg, g, label))))

(***************************************************************************)
(* rox_csv_generator.py: the LLM score cache and validate_with_genai        *)
(***************************************************************************)
\* The neutral result returned when Ollama fails
default_result == [k \in 1..5 |-> 3]

\* A cache file: absent, complete (the JSON document of a result), or
\* partial (the file exists and does not hold a complete JSON document)
AbsentEntry == [kind |-> "absent", score |-> <<>>]

PartialEntry == [kind |-> "partial", score |-> <<>>]

FullEntry(result) == [kind |-> "full", score |-> result]

\* _get_feature_hash with the description left out of content_data
_get_feature_hash_NoDescription(feature, model) ==
  <<<<>>, feature.key, model, feature.summary, feature.updated>>

\* json.dumps(content_data, sort_keys=True) lists description, key, model,
\* summary, updated in this order; SHA-256 is taken to be injective on these
\* serialisations, so the fingerprint is the serialised tuple.
_get_feature_hash(feature, model) ==
  <<feature.description, feature.key, model, feature.summary, feature.updated>>

\* What the environment does to a read of an existing cache file
ReadEvents == {"ok", "io_error"}

\* What the environment does to _save_cached_result: nothing, open() raises
\* OSError, json.dump raises OSError after the file was truncated, or the
\* process is interrupted before open(), after open() or after the dump.
WriteEvents == {"ok", "open_fails", "dump_fails",
                "kill_before_open", "kill_after_open", "kill_after_dump"}

Interrupts == {"kill_before_open", "kill_after_open", "kill_after_dump"}

\* _load_cached_result without its except clause: a failing read propagates
_load_cached_result_NoExcept(c, fp, rd) ==
  IF c[fp].kind = "absent"
  THEN [raised |-> FALSE, failed |-> FALSE, value |-> <<>>, cache |-> c, issued |-> FALSE]
  ELSE IF rd = "io_error" \/ c[fp].kind = "partial"
       THEN [raised |-> TRUE, failed |-> TRUE, value |-> <<>>, cache |-> c, issued |-> FALSE]
       ELSE [raised |-> FALSE, failed |-> FALSE, value |-> <<c[fp].score>>,
             cache |-> c, issued |-> FALSE]

\* _load_cached_result that removes a cache file it could not read
_load_cached_result_Evicting(c, fp, rd) ==
  IF c[fp].kind = "absent"
  THEN [raised |-> FALSE, failed |-> FALSE, value |-> <<>>, cache |-> c, issued |-> FALSE]
  ELSE IF rd = "io_error" \/ c[fp].kind = "partial"
       THEN [raised |-> FALSE, failed |-> TRUE, value |-> <<>>,
             cache |-> [c EXCEPT ![fp] = AbsentEntry], issued |-> FALSE]
       ELSE [raised |-> FALSE, failed |-> FALSE, value |-> <<c[fp].score>>,
             cache |-> c, issued |-> FALSE]

\* value is <<>> for None and <<result>> for a result; failed records that
\* open() or json.load raised inside the try; raised that an exception left
\* the function. cache is the cache directory when the function is left
\* (os.path.exists, open(cache_path, 'r') and json.load write nothing) and
\* issued whether it sent a request (it calls nothing that does).
_load_cached_result(c, fp, rd) ==
  IF c[fp].kind = "absent"
  THEN [raised |-> FALSE, failed |-> FALSE, value |-> <<>>, cache |-> c, issued |-> FALSE]
  ELSE IF rd = "io_error" \/ c[fp].kind = "partial"
       THEN [raised |-> FALSE, failed |-> TRUE, value |-> <<>>, cache |-> c, issued |-> FALSE]
       ELSE [raised |-> FALSE, failed |-> FALSE, value |-> <<c[fp].score>>,
             cache |-> c, issued |-> FALSE]

\* _save_cached_result that writes nothing
_save_cached_result_NotWritten(c, fp, result, wr) ==
  [cache |-> c, failed |-> FALSE, raised |-> FALSE, interrupted |-> wr \in Interrupts]

\* open(cache_path, 'w') creates or truncates the file, json.dump fills it.
_save_cached_result(c, fp, result, wr) ==
  [cache |->
     IF wr \in {"ok", "kill_after_dump"} THEN [c EXCEPT ![fp] = FullEntry(result)]
     ELSE IF wr \in {"dump_fails", "kill_after_open"} THEN [c EXCEPT ![fp] = PartialEntry]
     ELSE c,
   failed |-> wr \in {"open_fails", "dump_fails"},
   raised |-> FALSE,
   interrupted |-> wr \in Interrupts]

\* clear_cache that leaves the cache files in place
clear_cache_KeepsEntries(c) == c

\* clear_cache: shutil.rmtree and _ensure_cache_dir
clear_cache(c) == [fp \in DOMAIN c |-> AbsentEntry]

\* get_cache_stats()['total_cached']: the number of .json files
total_cached(c) == Cardinality({fp \in DOMAIN c : c[fp].kind # "absent"})

(***************************************************************************)
(* The Ollama response and its parsing                                     *)
(***************************************************************************)
Digits == <<"0","1","2","3","4","5","6","7","8","9">>

DigitChars == {Digits[i] : i \in DOMAIN Digits}

DigitValue(ch) == (CHOOSE i \in DOMAIN Digits : Digits[i] = ch) - 1

\* str.split(','): the fields between the commas
split(s) ==
  LET commas == {k \in 1..Len(s) : s[k] = ","}
      bounds == {0} \cup commas \cup {Len(s) + 1}
      NextBound(b) == SetMin({x \in bounds : x > b})
      starts == {0} \cup commas
      Nth[i \in 1..Cardinality(starts)] ==
        IF i = 1 THEN 0 ELSE NextBound(Nth[i - 1])
  IN [i \in 1..Cardinality(starts) |-> SubSeq(s, Nth[i] + 1, NextBound(Nth[i]) - 1)]

\* Whether int(x) accepts x: optional sign and decimal digits, surrounding
\* whitespace ignored
IsIntLiteral(x) ==
  LET t == strip(x)
      body == IF t # <<>> /\ t[1] \in {"+", "-"} THEN Tail(t) ELSE t
  IN body # <<>> /\ \A i \in 1..Len(body) : body[i] \in DigitChars

RECURSIVE DigitsValue(_)
DigitsValue(body) ==
  IF body = <<>> THEN 0
  ELSE 10 * DigitsValue(SubSeq(body, 1, Len(body) - 1)) + DigitValue(body[Len(body)])

\* int(x) for an accepted x
ToInt(x) ==
  LET t == strip(x)
  IN IF t[1] = "-" THEN 0 - DigitsValue(Tail(t))
     ELSE IF t[1] = "+" THEN DigitsValue(Tail(t))
     ELSE DigitsValue(t)

\* a sub-score taken as parsed, without max(1, min(5, ...))
Clamp15_NotClamped(v) == v

Clamp15(v) == Max2(1, Min2(5, v))

\* The try block of validate_with_genai up to the result it builds:
\* <<result>> when five scores were parsed, <<>> when the code falls through
\* to the default. resp.raised: requests.post raised; resp.json_ok: whether
\* response.json() succeeds; resp.response: the 'response' text.
ollama_result(resp) ==
  IF resp.raised THEN <<>>
  ELSE IF resp.status_code # 200 THEN <<>>
  ELSE IF ~resp.json_ok THEN <<>>
  ELSE LET fields == split(strip(resp.response))
       IN IF \E i \in DOMAIN fields : ~IsIntLiteral(fields[i]) THEN <<>>
          ELSE IF Len(fields) >= 5
               THEN <<[k \in 1..5 |-> Clamp15(ToInt(fields[k]))]>>
               ELSE <<>>

(***************************************************************************)
(* The Ollama responses of the model                                       *)
(***************************************************************************)
TxtFive ==
  <<"4",",","3",",","5",",","4",",","4">>

TxtOutOfRange ==
  <<"9",","," ","0",",","3",",","3",",","3">>

TxtFour ==
  <<"4",",","3",",","5",",","4">>

TxtSix ==
  <<"4",",","3",",","5",",","4",",","4",",","2">>

TxtWord ==
  <<"4",",","x",",","5",",","4",",","4">>

HttpResponse(code, jsonOk, text) ==
  [raised |-> FALSE, status_code |-> code, json_ok |-> jsonOk, response |-> text]

\* requests.post raised (connection error, timeout)
RequestFailed == [raised |-> TRUE, status_code |-> 0, json_ok |-> FALSE, response |-> <<>>]

\* stands for the response of a call that issued no request
NoResponse == [raised |-> FALSE, status_code |-> 0, json_ok |-> FALSE, response |-> <<>>]

\* The responses of the model, by name
ResponseOf ==
  [request_failed |-> RequestFailed,
   http_500 |-> HttpResponse(500, TRUE, <<>>),
   not_json |-> HttpResponse(200, FALSE, <<>>),
   five |-> HttpResponse(200, TRUE, TxtFive),
   out_of_range |-> HttpResponse(200, TRUE, TxtOutOfRange),
   four |-> HttpResponse(200, TRUE, TxtFour),
   six |-> HttpResponse(200, TRUE, TxtSix),
   word |-> HttpResponse(200, TRUE, TxtWord),
   none |-> NoResponse]

Responses == DOMAIN ResponseOf \ {"none"}

\* ollama_result of each response of the model, evaluated once
ParsedResponse == [name \in DOMAIN ResponseOf |-> ollama_result(ResponseOf[name])]

\* The call's effect and what it returned: outcome is "returned", "raised"
\* (an exception left validate_with_genai) or "interrupted" (the process
\* was interrupted inside _save_cached_result); result is <<>> or <<result>>.
CallResult(c, outcome, issued, result, rf, wf) ==
  [cache |-> c, outcome |-> outcome, issued |-> issued, result |-> result,
   read_failed |-> rf, write_failed |-> wf]

\* Lines 635-646 without the _save_cached_result call
default_path_NotCached(c, fp, wr, rf) ==
  CallResult(c, "returned", TRUE, <<default_result>>, rf, FALSE)

\* Lines 635-646 raising instead of returning the default result
default_path_Raising(c, fp, wr, rf) ==
  CallResult(c, "raised", TRUE, <<>>, rf, FALSE)

\* Lines 635-646: build the default result, cache it, return it. The save
\* is outside every try block.
default_path(c, fp, wr, rf) ==
  LET sv == _save_cached_result(c, fp, default_result, wr)
  IN IF sv.interrupted THEN CallResult(sv.cache, "interrupted", TRUE, <<>>, rf, FALSE)
     ELSE IF sv.raised THEN CallResult(sv.cache, "raised", TRUE, <<>>, rf, TRUE)
     ELSE CallResult(sv.cache, "returned", TRUE, <<default_result>>, rf, sv.failed)

\* Lines 592-633: the Ollama call answered by the response named resp; a
\* parsed result is cached and returned,
\* anything else falls through to the default. The save of line 621 is
\* inside the outer try: an exception leaving it would be handled there.
scoring_path(c, fp, resp, wr, rf) ==
  LET parsed == ParsedResponse[resp]
  IN IF parsed = <<>> THEN default_path(c, fp, wr, rf)
     ELSE LET sv == _save_cached_result(c, fp, parsed[1], wr)
          IN IF sv.interrupted THEN CallResult(sv.cache, "interrupted", TRUE, <<>>, rf, FALSE)
             ELSE IF sv.raised THEN default_path(sv.cache, fp, wr, rf)
             ELSE CallResult(sv.cache, "returned", TRUE, parsed, rf, sv.failed)

\* validate_with_genai that never consults the cache
validate_with_genai_NoLookup(c, model, feature, resp, rd, wr) ==
  scoring_path(c, _get_feature_hash(feature, model), resp, wr, FALSE)

validate_with_genai(c, model, feature, resp, rd, wr) ==
  LET fp == _get_feature_hash(feature, model)
      cached_result == _load_cached_result(c, fp, rd)
  IN IF cached_result.raised THEN CallResult(c, "raised", FALSE, <<>>, TRUE, FALSE)
     ELSE IF cached_result.value # <<>>
          THEN CallResult(c, "returned", FALSE, cached_result.value, FALSE, FALSE)
          ELSE scoring_path(c, fp, resp, wr, cached_result.failed)

(***************************************************************************)
(* SpecScore: calculate_compliance_score on every combination of a         *)
(* template score validate_feature_template can produce, the two           *)
(* assignment checks, five sub-scores and the label check.                 *)
(***************************************************************************)
TemplateScores ==
  {template_score(r, o) : r \in 0..Cardinality(required_sections),
                          o \in 0..Cardinality(optional_sections)}

\* The arguments of one call, not yet evaluated
SInit ==
  /\ \E ts10 \in TemplateScores, pm \in BOOLEAN, asg \in BOOLEAN,
        g \in GenAIValidationResult, label \in BOOLEAN :
       comp = <<[template_score |-> ts10, pm_assigned |-> pm, assignee_assigned |-> asg,
                 genai_result |-> g, has_410_label |-> label,
                 returned |-> FALSE, compliance_score |-> 0]>>
  /\ TemplateIdle
  /\ CacheIdle
  /\ ReportIdle
  /\ SectionIdle
  /\ RunIdle

CalculateComplianceScore ==
  /\ ~comp[1].returned
  /\ comp' = <<[comp[1] EXCEPT
                  !.returned = TRUE,
                  !.compliance_score =
                     calculate_compliance_score(comp[1].template_score, comp[1].pm_assigned,
                                                comp[1].assignee_assigned, comp[1].genai_result,
                                                comp[1].has_410_label)]>>
  /\ UNCHANGED <<templateVars, cacheVars, report, sect, tscore, runVars>>

SNext == CalculateComplianceScore

SpecScore == SInit /\ [][SNext]_vars

AllMinimum(c) ==
  /\ c.template_score = 0 /\ ~c.pm_assigned /\ ~c.assignee_assigned /\ ~c.has_410_label
  /\ \A k \in 1..5 : c.genai_result[k] = ScoreMin

AllMaximum(c) ==
  /\ c.template_score = 100 /\ c.pm_assigned /\ c.assignee_assigned /\ c.has_410_label
  /\ \A k \in 1..5 : c.genai_result[k] = ScoreMax

\* C8: calculate_compliance_score returns an integer in [1,10] on every
\* combination of inputs, 1 when every signal is at its minimum and 10 when
\* every signal is at its maximum.
C8_ScoreRange ==
  comp[1].returned =>
    /\ comp[1].compliance_score \in 1..10
    /\ AllMinimum(comp[1]) => comp[1].compliance_score = 1
    /\ AllMaximum(comp[1]) => comp[1].compliance_score = 10

C8_Witness == comp[1].returned /\ AllMinimum(comp[1]) /\ comp[1].compliance_score = 1

\* The weighted sum of the claim, in hundredths: 4*(t/10) + 2*((pm+asg)/2)
\* + 3*((mean - 1)/4) + 1*label, written out independently of the model
WeightedSum100(c) ==
  4 * c.template_score
  + 100 * (BoolInt(c.pm_assigned) + BoolInt(c.assignee_assigned))
  + 15 * SumScores(c.genai_result) - 75
  + 100 * BoolInt(c.has_410_label)

\* C9: the score is the clamp to [1,10] of an integer nearest to the
\* 40/20/30/10 weighted sum (an integer at distance at most 1/2 from it).
C9_WeightedRounded ==
  comp[1].returned =>
    \E r \in 0..10 :
      /\ 2 * r * 100 - 2 * WeightedSum100(comp[1]) \in -100..100
      /\ comp[1].compliance_score = Max2(1, Min2(10, r))

\* a case where the weighted sum is 6.75 and the score 7
C9_Witness ==
  /\ comp[1].returned
  /\ WeightedSum100(comp[1]) = 675
  /\ comp[1].compliance_score = 7

(***************************************************************************)
(* SpecTemplate: both validators applied to a family of descriptions.      *)
(* A description is the four required headers in template order, each      *)
(* followed by a newline and one of the bodies, separated by blank lines.  *)
(***************************************************************************)
BodyShipX ==
  <<"S","h","i","p"," ","X",".">>

BodyDoneWhenY ==
  <<"D","o","n","e"," ","w","h","e","n"," ","Y",".">>

BodyKpiZ ==
  <<"K","P","I"," ","Z"," ","t","r","a","c","k","e","d"," ","w","e","e","k","l","y",".">>

Bodies == <<BodyShipX, PhYourText, BodyDoneWhenY, BodyKpiZ>>

RequiredHeaders == <<HdrGoalSummary, HdrGoalsOutcomes, HdrAcceptanceCriteria, HdrSuccessCriteria>>

DescChoices == [DOMAIN RequiredHeaders -> DOMAIN Bodies]

DescriptionOf(d) ==
  LET Block(i) == RequiredHeaders[i] \o <<NL>> \o Bodies[d[i]]
  IN Block(1) \o <<NL, NL>> \o Block(2) \o <<NL, NL>> \o Block(3) \o <<NL, NL>> \o Block(4)

TInit ==
  /\ tdesc \in DescChoices
  /\ jres = NoResult
  /\ rres = NoResult
  /\ ScoreIdle
  /\ CacheIdle
  /\ ReportIdle
  /\ SectionIdle
  /\ RunIdle

\* JiraFeatureValidator.validate_feature on the record
ValidateFeature ==
  /\ jres' = <<validate_feature(DescriptionOf(tdesc))>>
  /\ UNCHANGED <<tdesc, rres, comp, cacheVars, report, sect, tscore, runVars>>

\* ROXFeatureReporter.validate_feature_template on the record
ValidateFeatureTemplate ==
  /\ rres' = <<validate_feature_template(DescriptionOf(tdesc))>>
  /\ UNCHANGED <<tdesc, jres, comp, cacheVars, report, sect, tscore, runVars>>

TNext == ValidateFeature \/ ValidateFeatureTemplate

SpecTemplate == TInit /\ [][TNext]_vars

\* The description of the end-to-end scenario: "Ship X.", the placeholder,
\* "Done when Y." and "KPI Z tracked weekly." under the four required headers.
ScenarioDesc == <<1, 2, 3, 4>>

\* C10 (as stated): the scenario record yields required_missing = 1,
\* overall_valid = false and template_score = 6.0.
C10_AsStated ==
  tdesc = ScenarioDesc =>
    /\ jres # NoResult => (jres[1].required_missing = 1 /\ ~jres[1].overall_valid)
    /\ rres # NoResult => rres[1].template_score = 60

\* The scenario record validated by both validators: two required sections
\* are missing for the Jira validator (the placeholder Goals section and the
\* 7-character Goal Summary), and the reporter, which does not extract the
\* last section when no blank line follows it, scores the template 4.0.
C10_Observed ==
  /\ tdesc = ScenarioDesc
  /\ jres # NoResult
  /\ rres # NoResult
  /\ jres[1].required_missing = 2
  /\ {i \in DOMAIN TEMPLATE_SECTIONS : ~jres[1].valid[i]} = {1, 2}
  /\ ~jres[1].overall_valid
  /\ rres[1].sections[4].content_length = 0
  /\ rres[1].required_sections_valid = 1
  /\ rres[1].optional_sections_valid = 2
  /\ rres[1].template_score = 40

(***************************************************************************)
(* SpecCache: a reporter constructed with either model, on an empty cache  *)
(* directory; validate_with_genai is called on records that differ in      *)
(* their description, under every Ollama response and every behaviour of   *)
(* the file system, with clear_cache between calls.                        *)
(***************************************************************************)
\* Bound on the number of validate_with_genai calls of a behaviour
MaxCalls == 3

\* the --ollama-model default
DefaultModel == "LLama3.1:8b"

Models == {DefaultModel, "mistral"}

CacheDescs == {<<1, 2, 3, 4>>, <<4, 4, 4, 4>>}

CacheFeatures ==
  {[key |-> "ROX-1", summary |-> "S", description |-> d, updated |-> "U"] : d \in CacheDescs}

Fingerprints == {_get_feature_hash(f, m) : f \in CacheFeatures, m \in Models}

\* The inputs a call consumes: a read event when the cache file exists, a
\* response and a write event when the lookup returns None.
ReadConsumed(c, model, f, rd) ==
  c[_get_feature_hash(f, model)].kind # "absent" \/ rd = "ok"

Misses(c, model, f, rd) ==
  _load_cached_result(c, _get_feature_hash(f, model), rd).value = <<>>

ResponsesConsumed(c, model, f, rd) ==
  IF Misses(c, model, f, rd) THEN Responses ELSE {"none"}

WritesConsumed(c, model, f, rd) ==
  IF Misses(c, model, f, rd) THEN WriteEvents ELSE {"ok"}

CInit ==
  /\ cache = [fp \in Fingerprints |-> AbsentEntry]
  /\ ollama_model \in Models
  /\ last = NoResult
  /\ ncalls = 0
  /\ TemplateIdle
  /\ ScoreIdle
  /\ ReportIdle
  /\ SectionIdle
  /\ RunIdle

ValidateWithGenai ==
  /\ ncalls < MaxCalls
  /\ \E f \in CacheFeatures, rd \in ReadEvents :
       /\ ReadConsumed(cache, ollama_model, f, rd)
       /\ \E resp \in ResponsesConsumed(cache, ollama_model, f, rd),
             wr \in WritesConsumed(cache, ollama_model, f, rd) :
            LET r == validate_with_genai(cache, ollama_model, f, resp, rd, wr)
            IN /\ cache' = r.cache
               /\ last' = <<[feature |-> f, model |-> ollama_model, response |-> resp,
                             issued |-> r.issued, outcome |-> r.outcome,
                             result |-> r.result, read_failed |-> r.read_failed,
                             write_failed |-> r.write_failed]>>
  /\ ncalls' = ncalls + 1
  /\ UNCHANGED <<ollama_model, templateVars, comp, report, sect, tscore, runVars>>

ClearCache ==
  /\ cache' = clear_cache(cache)
  /\ last' = NoResult
  /\ UNCHANGED <<ollama_model, ncalls, templateVars, comp, report, sect, tscore, runVars>>

CNext == ValidateWithGenai \/ ClearCache

SpecCache == CInit /\ [][CNext]_vars

\* A step that is a validate_with_genai call
CallStep == ncalls' = ncalls + 1

\* The fingerprint of the latest call, and of the call a step makes
LastFp == _get_feature_hash(last[1].feature, last[1].model)

StepFp == _get_feature_hash(last'[1].feature, last'[1].model)

\* A call step that follows a returned call for the same record and model
\* (clear_cache in between resets last)
RepeatStep ==
  /\ CallStep
  /\ last # NoResult
  /\ last[1].outcome = "returned"
  /\ last'[1].outcome = "returned"
  /\ last'[1].feature = last[1].feature
  /\ last'[1].model = last[1].model

RedescribedStep ==
  /\ CallStep
  /\ last # NoResult
  /\ last[1].outcome = "returned"
  /\ cache[LastFp] = FullEntry(last[1].result[1])
  /\ last'[1].feature.description # last[1].feature.description
  /\ [last[1].feature EXCEPT !.description = last'[1].feature.description] = last'[1].feature
  /\ last'[1].model = last[1].model

\* C2 (as stated): after the description of a scored and cached record
\* changes, the fingerprint differs and the next call issues a fresh
\* external request.
C2_AsStated ==
  [][RedescribedStep => StepFp # LastFp /\ last'[1].issued]_vars

\* C2 (amended): the fingerprint differs and the next call does not use the
\* old entry: it issues a fresh external request unless a readable entry
\* already exists under the new fingerprint, whose score it then returns.
C2_Redescribed ==
  [][RedescribedStep =>
       /\ StepFp # LastFp
       /\ last'[1].issued <=> ~(cache[StepFp].kind = "full" /\ ~last'[1].read_failed)
       /\ ~last'[1].issued => last'[1].result = <<cache[StepFp].score>>]_vars

\* The second call, for the other description, issued a request and both
\* descriptions now have their entry
C2_Witness ==
  /\ ncalls = 2
  /\ last # NoResult
  /\ last[1].outcome = "returned"
  /\ last[1].issued
  /\ cache[LastFp].kind = "full"
  /\ \E fp \in DOMAIN cache : fp # LastFp /\ cache[fp].kind = "full"

C4_AsStated ==
  last # NoResult /\ last[1].outcome = "interrupted" =>
    cache[LastFp].kind \in {"absent", "full"}

\* A call interrupted between open() and the end of json.dump has left a
\* partially written entry file under its fingerprint
C4_PartialEntry ==
  /\ last # NoResult
  /\ last[1].outcome = "interrupted"
  /\ cache[LastFp] = PartialEntry
  /\ total_cached(cache) = 1

\* Whether a response text is five comma-separated integers
FiveIntegers(text) ==
  LET fields == split(strip(text))
  IN Len(fields) = 5 /\ \A i \in DOMAIN fields : IsIntLiteral(fields[i])

\* A failed scoring call as C5 lists it: network error or timeout, non-200
\* status, a response that is not five comma-separated integers
FailureAsStated(name) ==
  LET r == ResponseOf[name]
  IN r.raised \/ r.status_code # 200 \/ ~r.json_ok \/ ~FiveIntegers(r.response)

\* A failed scoring call: network error or timeout, non-200 status, a body
\* that is not JSON, fewer than five fields, or a field that is no integer
ScoringFailed(name) ==
  LET r == ResponseOf[name]
      fields == split(strip(r.response))
  IN \/ r.raised
     \/ r.status_code # 200
     \/ ~r.json_ok
     \/ Len(fields) < 5
     \/ \E i \in DOMAIN fields : ~IsIntLiteral(fields[i])

C6_CacheFailuresContained ==
  last # NoResult /\ last[1].outcome # "interrupted" =>
    /\ last[1].outcome = "returned"
    /\ last[1].read_failed => last[1].issued
    /\ last[1].write_failed =>
         last[1].result = (IF ParsedResponse[last[1].response] = <<>>
                           THEN <<default_result>>
                           ELSE ParsedResponse[last[1].response])

\* A call whose read and whose write both failed returned a parsed score
C6_Witness ==
  /\ last # NoResult
  /\ last[1].read_failed
  /\ last[1].write_failed
  /\ last[1].outcome = "returned"
  /\ last[1].response = "five"

(***************************************************************************)
(* rox_csv_generator.py: the CSV report                                    *)
(***************************************************************************)
\* check_product_manager_assigned on the shapes customfield_12316752 takes
check_product_manager_assigned(feature) ==
  LET product_manager == feature.product_manager
  IN IF product_manager \in {"null", "empty_list", "empty_text"} THEN FALSE
     ELSE IF product_manager = "user_list" THEN TRUE
     ELSE IF product_manager = "user_dict" THEN TRUE
     ELSE IF product_manager = "unnamed_dict" THEN FALSE
     ELSE IF product_manager = "blank_text" THEN FALSE
     ELSE TRUE

\* check_assignee_assigned on the shapes of the assignee field
check_assignee_assigned(feature) ==
  LET assignee == feature.assignee
  IN IF assignee = "null" THEN FALSE
     ELSE IF assignee = "user_dict" THEN TRUE
     ELSE IF assignee = "unnamed_dict" THEN FALSE
     ELSE TRUE

check_410_label(feature) == "4.10.0" \in feature.labels

\* The rank before the pipe of customfield_12311940, 0 when the field is
\* missing or float() rejects it. The rank fields of the model hold no
\* fraction or exponent: on them float() accepts what int() accepts.
get_jira_rank_score(feature) ==
  LET rank_field == feature.rank_field
  IN IF rank_field = None \/ rank_field = <<>> THEN 0
     ELSE LET pipes == {k \in 1..Len(rank_field) : rank_field[k] = "|"}
              rank_str == IF pipes # {} THEN SubSeq(rank_field, 1, SetMin(pipes) - 1)
                          ELSE rank_field
          IN IF IsIntLiteral(rank_str) THEN ToInt(rank_str) ELSE 0

\* the feature data left in the order the features were fetched
sort_by_rank_Unsorted(feature_data) == feature_data

\* list.sort(key=get_jira_rank_score): stable, ascending
RECURSIVE sort_by_rank(_)
sort_by_rank(feature_data) ==
  IF feature_data = <<>> THEN <<>>
  ELSE LET init == sort_by_rank(SubSeq(feature_data, 1, Len(feature_data) - 1))
           x == feature_data[Len(feature_data)]
           k == Cardinality({j \in 1..Len(init) :
                  get_jira_rank_score(init[j].feature) <= get_jira_rank_score(x.feature)})
       IN SubSeq(init, 1, k) \o <<x>> \o SubSeq(init, k + 1, Len(init))

\* The rows of the writer loop (lines 713-784): same rank score, same Rank.
\* fetched is not a column: it records which fetched feature the row is for.
write_rows(feature_data) ==
  [i \in 1..Len(feature_data) |->
     LET data == feature_data[i]
         score(j) == get_jira_rank_score(feature_data[j].feature)
         current_rank == SetMax({j \in 1..i : j = 1 \/ score(j) # score(j - 1)})
     IN [Rank |-> current_rank,
         Key |-> data.feature.key,
         Summary |-> data.feature.summary,
         Template_Score |-> data.validation.template_score,
         Required_Sections_Valid |-> data.validation.required_sections_valid,
         Missing_Required |-> data.validation.missing_required,
         Has_410_Label |-> data.has_410_label,
         PM_Assigned |-> data.pm_assigned,
         Assignee_Assigned |-> data.assignee_assigned,
         GenAI |-> data.genai_result,
         Jira_Rank_Score |-> score(i),
         Compliance_Score |-> data.compliance_score,
         fetched |-> data.fetched]]

(***************************************************************************)
(* SpecReport: one run of generate_csv_report on the features Jira         *)
(* returns, as the v2 search API gives them (description a text or null),  *)
(* on an empty cache directory, under every Ollama response and every      *)
(* failure of the cache files; the process is not killed during the run.   *)
(***************************************************************************)
\* Bound on the number of features Jira returns
MaxFeatures == 2

RankTwo == <<"2", "|", "a", ":">>

RankOneB == <<"1", "|", "b", ":">>

RankOneC == <<"1", "|", "c", ":">>

RankLexo == <<"x", "|", "i", "0", "7", ":">>

\* description: the body choices of DescriptionOf, <<>> for null
ReportFeatures ==
  { [key |-> "ROX-1", summary |-> "S1", description |-> <<1, 2, 3, 4>>, updated |-> "U",
     rank_field |-> RankTwo, product_manager |-> "user_list", assignee |-> "null",
     labels |-> {"4.10.0"}],
    [key |-> "ROX-2", summary |-> "S2", description |-> <<4, 4, 4, 4>>, updated |-> "U",
     rank_field |-> RankOneB, product_manager |-> "user_dict", assignee |-> "user_dict",
     labels |-> {}],
    [key |-> "ROX-3", summary |-> "S3", description |-> <<>>, updated |-> "U",
     rank_field |-> None, product_manager |-> "null", assignee |-> "unnamed_dict",
     labels |-> {"docs"}],
    [key |-> "ROX-4", summary |-> "S4", description |-> <<4, 4, 4, 4>>, updated |-> "U",
     rank_field |-> RankOneC, product_manager |-> "blank_text", assignee |-> "user_dict",
     labels |-> {"4.10.0", "docs"}],
    [key |-> "ROX-5", summary |-> "S5", description |-> <<3, 3, 3, 3>>, updated |-> "U",
     rank_field |-> RankLexo, product_manager |-> "unnamed_dict", assignee |-> "null",
     labels |-> {}] }

FeatureLists ==
  UNION {[1..n -> ReportFeatures] : n \in 0..MaxFeatures}

ReportDescription(d) == IF d = <<>> THEN None ELSE DescriptionOf(d)

\* validate_feature_template of each description, evaluated once
ReportValidation ==
  [d \in {f.description : f \in ReportFeatures} |->
     validate_feature_template(ReportDescription(d))]

RInit ==
  /\ \E features \in FeatureLists :
       report = <<[pc |-> "start", features |-> features, feature_data |-> <<>>,
                   rows |-> <<>>]>>
  /\ ollama_model = DefaultModel
  /\ cache = [fp \in {_get_feature_hash(f, ollama_model) : f \in ReportFeatures} |->
                AbsentEntry]
  /\ last = NoResult
  /\ ncalls = 0
  /\ TemplateIdle
  /\ ScoreIdle
  /\ SectionIdle
  /\ RunIdle

\* Lines 650-655: test_connection and get_rox_4_10_features
FetchFeatures ==
  /\ report[1].pc = "start"
  /\ \E connected \in BOOLEAN :
       report' = <<[report[1] EXCEPT !.pc =
                      IF ~connected THEN "raised_cannot_connect"
                      ELSE IF report[1].features = <<>> THEN "raised_no_features"
                      ELSE "collect"]>>
  /\ UNCHANGED <<cacheVars, templateVars, comp, sect, tscore, runVars>>

\* Lines 661-685: one iteration of the loop over the features.
\* scoring_failed is not a key of the dictionary: it records that the call
\* issued the Ollama request and the request failed.
ProcessFeature ==
  /\ report[1].pc = "collect"
  /\ Len(report[1].feature_data) < Len(report[1].features)
  /\ LET i == Len(report[1].feature_data) + 1
         feature == report[1].features[i]
     IN \E rd \in ReadEvents :
          /\ ReadConsumed(cache, ollama_model, feature, rd)
          /\ \E resp \in ResponsesConsumed(cache, ollama_model, feature, rd),
                wr \in WritesConsumed(cache, ollama_model, feature, rd) \ Interrupts :
               LET validation == ReportValidation[feature.description]
                   r == validate_with_genai(cache, ollama_model, feature, resp, rd, wr)
               IN /\ cache' = r.cache
                  /\ report' =
                       IF r.outcome # "returned"
                       THEN <<[report[1] EXCEPT !.pc = "raised_scoring"]>>
                       ELSE <<[report[1] EXCEPT !.feature_data = Append(@,
                              [feature |-> feature,
                               validation |-> validation,
                               genai_result |-> r.result[1],
                               has_410_label |-> check_410_label(feature),
                               pm_assigned |-> check_product_manager_assigned(feature),
                               assignee_assigned |-> check_assignee_assigned(feature),
                               compliance_score |->
                                 calculate_compliance_score(
                                   validation.template_score,
                                   check_product_manager_assigned(feature),
                                   check_assignee_assigned(feature),
                                   r.result[1],
                                   check_410_label(feature)),
                               fetched |-> i,
                               scoring_failed |-> r.issued /\ ScoringFailed(resp)])]>>
  /\ UNCHANGED <<ollama_model, last, ncalls, templateVars, comp, sect, tscore, runVars>>

\* Lines 687-791: sort by rank score, write the rows, return
WriteCsv ==
  /\ report[1].pc = "collect"
  /\ Len(report[1].feature_data) = Len(report[1].features)
  /\ LET sorted == sort_by_rank(report[1].feature_data)
     IN report' = <<[report[1] EXCEPT !.feature_data = sorted,
                                      !.rows = write_rows(sorted),
                                      !.pc = "done"]>>
  /\ UNCHANGED <<cacheVars, templateVars, comp, sect, tscore, runVars>>

RNext == FetchFeatures \/ ProcessFeature \/ WriteCsv

SpecReport == RInit /\ [][RNext]_vars

\* C7: on a non-empty list of fetched features generate_csv_report is never
\* stopped by a scoring call, and when it returns it has written exactly
\* one row per fetched feature; the row of a feature whose scoring call
\* failed carries the neutral scores.
C7_OneRowPerFeature ==
  LET r == report[1]
  IN /\ r.pc # "raised_scoring"
     /\ r.pc = "raised_no_features" => r.features = <<>>
     /\ r.pc = "done" =>
          /\ Len(r.rows) = Len(r.features)
          /\ {r.rows[j].fetched : j \in DOMAIN r.rows} = DOMAIN r.features
          /\ \A j \in DOMAIN r.rows :
               /\ r.rows[j].Key = r.features[r.rows[j].fetched].key
               /\ \A k \in DOMAIN r.feature_data :
                    r.feature_data[k].fetched = r.rows[j].fetched
                      /\ r.feature_data[k].scoring_failed
                    => r.rows[j].GenAI = default_result

\* A finished report of two features with one rank score, the scoring call
\* of the first having failed and that of the second not
C7_Witness ==
  /\ report[1].pc = "done"
  /\ Len(report[1].rows) = 2
  /\ report[1].rows[1].Rank = report[1].rows[2].Rank
  /\ \E k \in 1..2 : report[1].feature_data[k].fetched = 1
                     /\ report[1].feature_data[k].scoring_failed
  /\ \E k \in 1..2 : report[1].feature_data[k].fetched = 2
                     /\ ~report[1].feature_data[k].scoring_failed
                     /\ report[1].feature_data[k].genai_result # default_result

(***************************************************************************)
(* SpecSection: one template section with one content, judged by           *)
(* JiraFeatureValidator.validate_section and by the reporter               *)
(* (TemplateSection.is_valid, and validate_feature_template on the         *)
(* description that holds the section alone).                              *)
(***************************************************************************)
TxtNine == <<"N","i","n","e"," ","c","h","a","r">>

TxtTen == <<"T","e","n"," ","c","h","a","r","s",".">>

TxtEleven == <<"E","l","e","v","e","n"," ","c","h","a","r">>

TxtShort == <<"n","/","a">>

PhUpperYourText ==
  <<"<","Y","O","U","R"," ","T","E","X","T"," ","H","E","R","E",">">>

\* the acceptance placeholder in lower case throughout
PhLowerAcceptance == <<"<">> \o PhBareAcceptance \o <<">">>

PhPadded == <<" ">> \o PhYourText \o <<" ">>

SectionContents ==
  { <<>>, PhYourText, PhAcceptance, PhSuccess, PhUpperYourText, PhLowerAcceptance,
    PhPadded, TxtNine, TxtTen, TxtEleven, TxtShort, BodyShipX, BodyKpiZ }

\* The description made of the section's header, the content and a blank line
SectionDescription(i, content) ==
  TEMPLATE_SECTIONS[i].header \o <<NL>> \o content \o <<NL, NL>>

XInit ==
  /\ \E i \in DOMAIN TEMPLATE_SECTIONS, content \in SectionContents :
       sect = <<[section |-> i, content |-> content, jira |-> <<>>, rox |-> <<>>]>>
  /\ tscore = NoResult
  /\ TemplateIdle
  /\ ScoreIdle
  /\ CacheIdle
  /\ ReportIdle
  /\ RunIdle

\* JiraFeatureValidator.validate_section(section, content): is_valid
ValidateSection ==
  /\ sect[1].jira = <<>>
  /\ sect' = <<[sect[1] EXCEPT !.jira =
                  <<validate_section(TEMPLATE_SECTIONS[sect[1].section], sect[1].content)>>]>>
  /\ UNCHANGED <<templateVars, comp, cacheVars, report, tscore, runVars>>

\* TemplateSection(name, required, content).is_valid(), and the entry
\* validate_feature_template makes for the section in 'sections'
IsValid ==
  /\ sect[1].rox = <<>>
  /\ sect' = <<[sect[1] EXCEPT !.rox =
       <<[valid |-> is_valid(section_patterns[sect[1].section].required, sect[1].content),
          outcome |-> validate_feature_template(
                        SectionDescription(sect[1].section, sect[1].content)
                      ).sections[sect[1].section]]>>]>>
  /\ UNCHANGED <<templateVars, comp, cacheVars, report, tscore, runVars>>

XNext == ValidateSection \/ IsValid

SpecSection == XInit /\ [][XNext]_vars

SectRequired == TEMPLATE_SECTIONS[sect[1].section].required

\* Whether both validators have judged the section
SectJudged == sect[1].jira # <<>> /\ sect[1].rox # <<>>

\* The trimmed content is the section's placeholder, case ignored
SectIsPlaceholder ==
  lower(strip(sect[1].content)) = lower(TEMPLATE_SECTIONS[sect[1].section].placeholder)

\* The trimmed content is none of the placeholders, case ignored
SectNoPlaceholder ==
  /\ \A i \in DOMAIN TEMPLATE_SECTIONS :
       lower(strip(sect[1].content)) # lower(TEMPLATE_SECTIONS[i].placeholder)
  /\ \A ph \in placeholders : ~Contains(lower(strip(sect[1].content)), ph)

\* C11: on empty content both validators return valid for an optional
\* section and invalid for a required one.
C11_EmptyContent ==
  sect[1].content = <<>> =>
    /\ sect[1].jira # <<>> => sect[1].jira[1] = ~SectRequired
    /\ sect[1].rox # <<>> =>
         /\ sect[1].rox[1].valid = ~SectRequired
         /\ sect[1].rox[1].outcome.valid = ~SectRequired

\* An optional section with empty content judged valid by both validators
C11_Witness ==
  /\ sect[1].content = <<>>
  /\ ~SectRequired
  /\ SectJudged
  /\ sect[1].jira[1]
  /\ sect[1].rox[1].valid

\* C12 (as stated): content whose trimmed text is the section's placeholder,
\* case ignored, is present, valid for an optional section and invalid for a
\* required one.
C12_AsStated ==
  SectIsPlaceholder =>
    /\ sect[1].jira # <<>> => sect[1].jira[1] = ~SectRequired
    /\ sect[1].rox # <<>> =>
         /\ sect[1].rox[1].outcome.present
         /\ sect[1].rox[1].valid = ~SectRequired
         /\ sect[1].rox[1].outcome.valid = ~SectRequired

\* The placeholder in upper case in the required Goal Summary section:
\* validate_section judges it valid, is_valid does not
C12_UpperCaseAccepted ==
  /\ sect[1].section = 1
  /\ sect[1].content = PhUpperYourText
  /\ SectJudged
  /\ sect[1].jira[1]
  /\ ~sect[1].rox[1].valid

\* C13 (as stated): non-placeholder content of trimmed length 9 is invalid
\* and of trimmed length 10 is valid, for every section.
C13_AsStated ==
  SectNoPlaceholder /\ Len(strip(sect[1].content)) \in {9, 10} =>
    LET expected == Len(strip(sect[1].content)) = 10
    IN /\ sect[1].jira # <<>> => sect[1].jira[1] = expected
       /\ sect[1].rox # <<>> =>
            /\ sect[1].rox[1].valid = expected
            /\ sect[1].rox[1].outcome.valid = expected

\* Ten characters in the required Goal Summary section: valid for
\* validate_section, invalid for is_valid
C13_TenRejected ==
  /\ sect[1].section = 1
  /\ sect[1].content = TxtTen
  /\ SectJudged
  /\ sect[1].jira[1]
  /\ ~sect[1].rox[1].valid
  /\ ~sect[1].rox[1].outcome.valid
  /\ sect[1].rox[1].outcome.content_length = 10

\* C14 (as stated): non-empty, non-placeholder content of fewer than 10
\* trimmed characters is present and invalid, in optional sections as in
\* required ones.
C14_AsStated ==
  /\ SectNoPlaceholder
  /\ strip(sect[1].content) # <<>>
  /\ Len(strip(sect[1].content)) < 10
  =>
    /\ sect[1].jira # <<>> => ~sect[1].jira[1]
    /\ sect[1].rox # <<>> =>
         /\ sect[1].rox[1].outcome.present
         /\ ~sect[1].rox[1].valid
         /\ ~sect[1].rox[1].outcome.valid

\* Three characters in the optional Use Cases section: invalid for
\* validate_section, valid for the reporter
C14_OptionalShortValid ==
  /\ sect[1].section = 5
  /\ sect[1].content = TxtShort
  /\ SectJudged
  /\ ~sect[1].jira[1]
  /\ sect[1].rox[1].outcome.present
  /\ sect[1].rox[1].outcome.valid
  /\ sect[1].rox[1].outcome.content_length = 3

(***************************************************************************)
(* SpecRecord: both validators applied to records whose description holds  *)
(* any subset of the six sections, in template order, with a too short, a  *)
(* placeholder or a meaningful body, with or without a blank line at the   *)
(* end; and to the record whose description is null.                       *)
(***************************************************************************)
\* body choices of a section: 0 is "the section is absent"
RecordBodies == <<BodyShipX, PhYourText, BodyKpiZ>>

RecordBodyChoices ==
  [i \in DOMAIN TEMPLATE_SECTIONS |->
     IF i \in {1, 2} THEN 0..3
     ELSE IF i = 5 THEN {0, 1, 3}
     ELSE {0, 3}]

NullRecord == [bodies |-> [i \in DOMAIN TEMPLATE_SECTIONS |-> 0], trailing |-> FALSE,
               null |-> TRUE]

Records ==
  { [bodies |-> b, trailing |-> t, null |-> FALSE] :
      b \in {b \in [DOMAIN TEMPLATE_SECTIONS -> 0..3] :
               \A i \in DOMAIN TEMPLATE_SECTIONS : b[i] \in RecordBodyChoices[i]},
      t \in BOOLEAN }
  \cup {NullRecord}

RECURSIVE JoinBlocks(_, _)
JoinBlocks(bodies, i) ==
  IF i > Len(TEMPLATE_SECTIONS) THEN <<>>
  ELSE LET rest == JoinBlocks(bodies, i + 1)
           block == TEMPLATE_SECTIONS[i].header \o <<NL>> \o RecordBodies[bodies[i]]
       IN IF bodies[i] = 0 THEN rest
          ELSE IF rest = <<>> THEN block
          ELSE block \o <<NL, NL>> \o rest

\* fields.description of the record
RecordDescription(r) ==
  IF r.null THEN None
  ELSE JoinBlocks(r.bodies, 1) \o (IF r.trailing THEN <<NL, NL>> ELSE <<>>)

RecInit ==
  /\ tdesc \in Records
  /\ jres = NoResult
  /\ rres = NoResult
  /\ ScoreIdle
  /\ CacheIdle
  /\ ReportIdle
  /\ SectionIdle
  /\ RunIdle

\* JiraFeatureValidator.validate_feature on the record
ValidateRecord ==
  /\ jres = NoResult
  /\ jres' = <<validate_feature(RecordDescription(tdesc))>>
  /\ UNCHANGED <<tdesc, rres, comp, cacheVars, report, sect, tscore, runVars>>

\* ROXFeatureReporter.validate_feature_template on the record
ValidateRecordTemplate ==
  /\ rres = NoResult
  /\ rres' = <<validate_feature_template(RecordDescription(tdesc))>>
  /\ UNCHANGED <<tdesc, jres, comp, cacheVars, report, sect, tscore, runVars>>

RecNext == ValidateRecord \/ ValidateRecordTemplate

SpecRecord == RecInit /\ [][RecNext]_vars

C16_MissingCounts ==
  jres # NoResult =>
    /\ jres[1].required_missing =
         Cardinality({i \in DOMAIN TEMPLATE_SECTIONS :
                        TEMPLATE_SECTIONS[i].required /\ ~jres[1].valid[i]})
    /\ jres[1].optional_missing =
         Cardinality({i \in DOMAIN TEMPLATE_SECTIONS :
                        ~TEMPLATE_SECTIONS[i].required /\ ~jres[1].valid[i]})
    /\ jres[1].overall_valid <=> jres[1].required_missing = 0

\* A record with two required sections and one optional section invalid
C16_Witness ==
  /\ jres # NoResult
  /\ jres[1].required_missing = 2
  /\ jres[1].optional_missing = 1
  /\ ~jres[1].overall_valid

\* C17: template_score is 8 * (valid required sections / 4) + 2 * (valid
\* optional sections / 2), the sections counted being those the result
\* reports valid, and lies in [0,10] (the score is held in tenths).
C17_WeightedTemplateScore ==
  rres # NoResult =>
    LET rv == Cardinality({i \in required_sections : rres[1].sections[i].valid})
        ov == Cardinality({i \in optional_sections : rres[1].sections[i].valid})
    IN /\ 4 * 2 * rres[1].template_score = 10 * (8 * rv * 2 + 2 * ov * 4)
       /\ rres[1].template_score \in 0..100
       /\ rres[1].required_sections_valid = rv
       /\ rres[1].optional_sections_valid = ov

\* A record with three of the four required sections valid: score 8.0
C17_Witness ==
  /\ rres # NoResult
  /\ Cardinality({i \in required_sections : rres[1].sections[i].valid}) = 3
  /\ rres[1].template_score = 80

(***************************************************************************)
(* SpecTemplateScore: the score validate_feature_template computes from    *)
(* the validity of the six sections (lines 244-268), for every validity    *)
(* of the six, and again after one more section has become valid.          *)
(***************************************************************************)
\* Lines 244-268: count the valid required and optional sections, weigh them
score_of_sections(valid) ==
  template_score(Cardinality({i \in required_sections : valid[i]}),
                 Cardinality({i \in optional_sections : valid[i]}))

TSInit ==
  /\ \E valid \in [DOMAIN section_patterns -> BOOLEAN] :
       tscore = <<[valid |-> valid, scored |-> FALSE, template_score |-> 0]>>
  /\ sect = NoResult
  /\ TemplateIdle
  /\ ScoreIdle
  /\ CacheIdle
  /\ ReportIdle
  /\ RunIdle

\* validate_feature_template on a record whose sections have this validity
ScoreTemplate ==
  /\ ~tscore[1].scored
  /\ tscore' = <<[tscore[1] EXCEPT !.scored = TRUE,
                                   !.template_score = score_of_sections(tscore[1].valid)]>>
  /\ UNCHANGED <<templateVars, comp, cacheVars, report, sect, runVars>>

\* The record is edited so that one more section is valid, and validated again
RevalidateSection ==
  /\ tscore[1].scored
  /\ \E i \in DOMAIN section_patterns :
       /\ ~tscore[1].valid[i]
       /\ LET valid == [tscore[1].valid EXCEPT ![i] = TRUE]
          IN tscore' = <<[valid |-> valid, scored |-> TRUE,
                          template_score |-> score_of_sections(valid)]>>
  /\ UNCHANGED <<templateVars, comp, cacheVars, report, sect, runVars>>

TSNext == ScoreTemplate \/ RevalidateSection

SpecTemplateScore == TSInit /\ [][TSNext]_vars

\* C18: when one section turns from invalid to valid and the other five
\* keep their validity, template_score does not decrease; and with all six
\* sections valid it is 10.0 (100 tenths).
C18_ScoreMonotone ==
  [][/\ (tscore'[1].scored /\ \A i \in DOMAIN section_patterns : tscore'[1].valid[i])
          => tscore'[1].template_score = 100
     /\ (/\ tscore[1].scored
         /\ tscore'[1].scored
         /\ \E i \in DOMAIN section_patterns :
              /\ ~tscore[1].valid[i]
              /\ tscore'[1].valid = [tscore[1].valid EXCEPT ![i] = TRUE])
          => tscore'[1].template_score >= tscore[1].template_score]_vars

\* All six sections valid after the last invalid one, an optional section,
\* has become valid: the score is 10.0
C18_Witness ==
  /\ tscore[1].scored
  /\ \A i \in DOMAIN section_patterns : tscore[1].valid[i]
  /\ tscore[1].template_score = 100

(***************************************************************************)
(* SpecLookup: SpecCache with _load_cached_result also called on its own,  *)
(* on a cache directory in every state the calls can leave it in.          *)
(***************************************************************************)
\* _load_cached_result(feature) on its own; last records what it returned
LoadCachedResult ==
  /\ \E f \in CacheFeatures, rd \in ReadEvents :
       /\ ReadConsumed(cache, ollama_model, f, rd)
       /\ LET r == _load_cached_result(cache, _get_feature_hash(f, ollama_model), rd)
          IN /\ cache' = r.cache
             /\ last' = <<[feature |-> f, model |-> ollama_model, response |-> "none",
                           issued |-> r.issued,
                           outcome |-> IF r.raised THEN "lookup_raised" ELSE "lookup",
                           result |-> r.value, read_failed |-> r.failed,
                           write_failed |-> FALSE]>>
  /\ UNCHANGED <<ollama_model, ncalls, templateVars, comp, report, sect, tscore, runVars>>

LNext == ValidateWithGenai \/ ClearCache \/ LoadCachedResult

SpecLookup == CInit /\ [][LNext]_vars

\* A step that is a _load_cached_result call on its own
LookupStep ==
  /\ last' # NoResult
  /\ last'[1].outcome \in {"lookup", "lookup_raised"}
  /\ ncalls' = ncalls

\* C19: _load_cached_result only reads: whether it finds a complete entry,
\* no entry or an unreadable one, it sends no request and leaves every
\* cache entry as it was.
C19_PureRead ==
  [][LookupStep => /\ cache' = cache
                   /\ ~last'[1].issued]_vars

\* A lookup has found a partial cache file and returned None; the file is
\* still there
C19_Witness ==
  /\ last # NoResult
  /\ last[1].outcome = "lookup"
  /\ last[1].read_failed
  /\ last[1].result = <<>>
  /\ cache[LastFp] = PartialEntry

(***************************************************************************)
(* clear_cache in SpecCache                                                *)
(***************************************************************************)
\* A step that is a clear_cache call (ClearCache resets last and makes no
\* validate_with_genai call)
ClearStep ==
  /\ last' = NoResult
  /\ ncalls' = ncalls

\* C20: when clear_cache has returned, get_cache_stats reports
\* total_cached = 0, and the validate_with_genai call that follows, for
\* whichever record, finds no cache file and sends a request to Ollama.
C20_ClearedCacheMisses ==
  [][/\ ClearStep => total_cached(cache') = 0
     /\ (CallStep /\ last = NoResult)
          => /\ last'[1].issued
             /\ ~last'[1].read_failed
             /\ last'[1].response # "none"]_vars

\* clear_cache has returned after at least one validate_with_genai call:
\* no cache file is left
C20_Witness ==
  /\ ncalls >= 1
  /\ last = NoResult
  /\ total_cached(cache) = 0
  /\ \A fp \in Fingerprints : cache[fp] = AbsentEntry

(***************************************************************************)
(* The sub-scores validate_with_genai returns, in SpecCache                *)
(***************************************************************************)
\* C21: whatever validate_with_genai returns, parsed from a response of the
\* service, the default result or the content of a cache file, is five
\* integers, each in 1..5.
C21_SubScoresInRange ==
  (last # NoResult /\ last[1].outcome = "returned")
    => /\ Len(last[1].result) = 1
       /\ DOMAIN last[1].result[1] = 1..5
       /\ \A k \in 1..5 : last[1].result[1][k] \in 1..5

\* A call answered from the cache file that an earlier call wrote for the
\* response "9, 0,3,3,3": the clamped scores come back
C21_Witness ==
  /\ last # NoResult
  /\ last[1].outcome = "returned"
  /\ ~last[1].issued
  /\ last[1].result = << <<5, 1, 3, 3, 3>> >>
  /\ cache[LastFp] = FullEntry(<<5, 1, 3, 3, 3>>)

(***************************************************************************)
(* SpecComments: ROXFeatureReporter.run from the point where               *)
(* generate_csv_report has returned the CSV file: add_template_comments    *)
(* reads the rows back and posts the comments, under either flag of main,  *)
(* every answer of Jira to a post and a failing read of the file.          *)
(***************************************************************************)
\* str(n) for n >= 0, as csv.DictWriter writes an integer
RECURSIVE str_int(_)
str_int(n) ==
  IF n < 10 THEN <<Digits[n + 1]>>
  ELSE str_int(n \div 10) \o <<Digits[(n % 10) + 1]>>

\* The descriptions of the features of a run: all four required sections
\* filled in, the same with no blank line after the last section, the
\* second section left as its placeholder, and no description
CommentRecords ==
  [complete |-> [bodies |-> <<3, 3, 3, 3, 0, 0>>, trailing |-> TRUE, null |-> FALSE],
   no_blank_line |-> [bodies |-> <<3, 3, 3, 3, 0, 0>>, trailing |-> FALSE, null |-> FALSE],
   placeholder |-> [bodies |-> <<3, 2, 3, 3, 1, 0>>, trailing |-> TRUE, null |-> FALSE],
   null |-> NullRecord]

CommentFeatures ==
  { [key |-> "ROX-1", summary |-> "S1", description |-> "complete", updated |-> "U",
     rank_field |-> RankTwo, product_manager |-> "user_list", assignee |-> "null",
     labels |-> {"4.10.0"}],
    [key |-> "ROX-2", summary |-> "S2", description |-> "no_blank_line", updated |-> "U",
     rank_field |-> RankOneB, product_manager |-> "user_dict", assignee |-> "user_dict",
     labels |-> {}],
    [key |-> "ROX-3", summary |-> "S3", description |-> "null", updated |-> "U",
     rank_field |-> None, product_manager |-> "null", assignee |-> "unnamed_dict",
     labels |-> {"docs"}],
    [key |-> "ROX-4", summary |-> "S4", description |-> "placeholder", updated |-> "U",
     rank_field |-> RankOneC, product_manager |-> "blank_text", assignee |-> "user_dict",
     labels |-> {"4.10.0", "docs"}] }

\* generate_csv_report raises on an empty list of features
CommentLists ==
  UNION {[1..n -> CommentFeatures] : n \in 1..MaxFeatures}

\* validate_feature_template of each description, evaluated once
CommentValidation ==
  [d \in DOMAIN CommentRecords |->
     validate_feature_template(RecordDescription(CommentRecords[d]))]

\* Lines 661-685 with every scoring call answered by the default result
comment_feature_data(features) ==
  [i \in 1..Len(features) |->
     LET feature == features[i]
         validation == CommentValidation[feature.description]
     IN [feature |-> feature,
         validation |-> validation,
         genai_result |-> default_result,
         has_410_label |-> check_410_label(feature),
         pm_assigned |-> check_product_manager_assigned(feature),
         assignee_assigned |-> check_assignee_assigned(feature),
         compliance_score |->
           calculate_compliance_score(validation.template_score,
                                      check_product_manager_assigned(feature),
                                      check_assignee_assigned(feature),
                                      default_result, check_410_label(feature)),
         fetched |-> i]]

\* The rows of the CSV file as csv.DictReader gives them back: the columns
\* add_template_comments decides on, each the text the writer wrote
csv_rows(features) ==
  LET rows == write_rows(sort_by_rank(comment_feature_data(features)))
  IN [j \in DOMAIN rows |->
        [Key |-> rows[j].Key,
         Required_Sections_Valid |-> str_int(rows[j].Required_Sections_Valid)]]

\* The CSV file of each list of features, evaluated once
CsvFile == [features \in CommentLists |-> csv_rows(features)]

\* What Jira does to the POST of add_comment_to_feature: HTTP 201, another
\* status, or session.post raises
PostOutcomes == {"created_201", "other_status", "raised"}

\* run that lets --add-comments override --dry-run-comments
comment_mode_AddWins(add_comments, dry_run_comments) ==
  [called |-> add_comments \/ dry_run_comments,
   dry_run |-> dry_run_comments /\ ~add_comments]

\* Lines 984-985 of run: whether add_template_comments is called, and its
\* dry_run argument
comment_mode(add_comments, dry_run_comments) ==
  [called |-> add_comments \/ dry_run_comments,
   dry_run |-> dry_run_comments]

\* a comment for every row
needs_comment_Always(required_valid) == TRUE

\* Line 935: if required_valid < 4
needs_comment(required_valid) == required_valid < 4

\* a failed post counted as added and as an error
count_post_Both(stats, success) ==
  IF success THEN [stats EXCEPT !.comments_added = @ + 1]
  ELSE [stats EXCEPT !.comments_added = @ + 1, !.errors = @ + 1]

\* Lines 949-953: success counts as a comment added, failure as an error
count_post(stats, success) ==
  IF success THEN [stats EXCEPT !.comments_added = @ + 1]
  ELSE [stats EXCEPT !.errors = @ + 1]

\* Lines 884-892: True on HTTP 201, False on another status or an exception
add_comment_to_feature(outcome) == outcome = "created_201"

CmInit ==
  /\ \E features \in CommentLists, add_comments \in BOOLEAN, dry_run_comments \in BOOLEAN :
       comments = <<[pc |-> "csv_written",
                     features |-> features,
                     csv |-> CsvFile[features],
                     add_comments |-> add_comments,
                     dry_run_comments |-> dry_run_comments,
                     dry_run |-> FALSE,
                     next |-> 1,
                     stats |-> [total_features |-> 0, features_needing_comments |-> 0,
                                comments_added |-> 0, errors |-> 0],
                     posts |-> <<>>,
                     read_failed |-> FALSE]>>
  /\ pager = NoResult
  /\ daily = NoResult
  /\ TemplateIdle
  /\ ScoreIdle
  /\ CacheIdle
  /\ ReportIdle
  /\ SectionIdle

\* Lines 984-985: run calls add_template_comments under either flag
RunComments ==
  /\ comments[1].pc = "csv_written"
  /\ LET mode == comment_mode(comments[1].add_comments, comments[1].dry_run_comments)
     IN comments' = <<[comments[1] EXCEPT !.pc = IF mode.called THEN "rows" ELSE "returned",
                                          !.dry_run = mode.dry_run]>>
  /\ UNCHANGED <<templateVars, comp, cacheVars, report, sect, tscore, pager, daily>>

\* Lines 919-946 and 954-956: open the file or read its next row; a row
\* that needs a comment is counted, and in a dry run only printed. read_failed
\* is not a key of stats: it records that open() or the reader raised and
\* the handler of lines 972-975 counted an error.
ReadRow ==
  /\ comments[1].pc = "rows"
  /\ \E rd \in ReadEvents :
       LET c == comments[1]
           row == c.csv[c.next]
           counted == [c.stats EXCEPT !.total_features = @ + 1]
       IN comments' =
            IF rd = "io_error"
            THEN <<[c EXCEPT !.pc = "returned", !.stats.errors = @ + 1,
                             !.read_failed = TRUE]>>
            ELSE IF c.next > Len(c.csv)
            THEN <<[c EXCEPT !.pc = "returned"]>>
            ELSE IF ~IsIntLiteral(row.Required_Sections_Valid)
            THEN <<[c EXCEPT !.pc = "returned",
                             !.stats = [counted EXCEPT !.errors = @ + 1],
                             !.read_failed = TRUE]>>
            ELSE IF needs_comment(ToInt(row.Required_Sections_Valid))
            THEN <<[c EXCEPT !.stats = [counted EXCEPT !.features_needing_comments = @ + 1],
                             !.pc = IF c.dry_run THEN "rows" ELSE "post",
                             !.next = IF c.dry_run THEN @ + 1 ELSE @]>>
            ELSE <<[c EXCEPT !.stats = counted, !.next = @ + 1]>>
  /\ UNCHANGED <<templateVars, comp, cacheVars, report, sect, tscore, pager, daily>>

\* Lines 947-953: the post of the comment and the count of its outcome
PostComment ==
  /\ comments[1].pc = "post"
  /\ \E outcome \in PostOutcomes :
       LET c == comments[1]
       IN comments' = <<[c EXCEPT !.pc = "rows",
                                  !.next = @ + 1,
                                  !.posts = Append(@, [Key |-> c.csv[c.next].Key,
                                                       row |-> c.next,
                                                       outcome |-> outcome]),
                                  !.stats = count_post(c.stats,
                                                       add_comment_to_feature(outcome))]>>
  /\ UNCHANGED <<templateVars, comp, cacheVars, report, sect, tscore, pager, daily>>

CmNext == RunComments \/ ReadRow \/ PostComment

SpecComments == CmInit /\ [][CmNext]_vars

\* C22: every comment posted during a run goes to a feature whose
\* validation counted fewer than four valid required sections; a feature
\* with all four valid gets none.
C22_CommentsOnlyWhenIncomplete ==
  \A k \in DOMAIN comments[1].posts :
    /\ \E i \in DOMAIN comments[1].features :
         comments[1].features[i].key = comments[1].posts[k].Key
    /\ \A i \in DOMAIN comments[1].features :
         comments[1].features[i].key = comments[1].posts[k].Key
           => CommentValidation[comments[1].features[i].description]
                .required_sections_valid < 4

\* A finished live run on a complete feature and one with a placeholder:
\* one comment, posted to the second
C22_Witness ==
  /\ comments[1].pc = "returned"
  /\ ~comments[1].read_failed
  /\ {comments[1].features[i].key : i \in DOMAIN comments[1].features} = {"ROX-1", "ROX-4"}
  /\ CommentValidation["complete"].required_sections_valid = 4
  /\ Len(comments[1].posts) = 1
  /\ comments[1].posts[1].Key = "ROX-4"
  /\ comments[1].posts[1].outcome = "created_201"

\* C25: with --dry-run-comments, alone or together with --add-comments, no
\* comment is posted and comments_added stays 0.
C25_DryRunPostsNothing ==
  comments[1].dry_run_comments
    => /\ comments[1].posts = <<>>
       /\ comments[1].pc # "post"
       /\ comments[1].stats.comments_added = 0

\* A finished run under both flags in which two rows needed a comment
C25_Witness ==
  /\ comments[1].pc = "returned"
  /\ comments[1].dry_run_comments
  /\ comments[1].add_comments
  /\ comments[1].stats.features_needing_comments = 2
  /\ comments[1].posts = <<>>

\* The rows of the file that need a comment
RowsNeedingComment ==
  {j \in DOMAIN comments[1].csv :
     ToInt(comments[1].csv[j].Required_Sections_Valid) < 4}

\* C30 as stated: comments_added + errors <= features_needing_comments
\* <= total_features at every point, and equality on the left when a live
\* run has processed all rows, with one post per row that needs one.
C30_AsStated ==
  LET st == comments[1].stats
  IN /\ st.comments_added + st.errors <= st.features_needing_comments
     /\ st.features_needing_comments <= st.total_features
     /\ (comments[1].pc = "returned" /\ comments[1].add_comments
           /\ ~comments[1].dry_run_comments /\ ~comments[1].read_failed)
          => /\ st.comments_added + st.errors = st.features_needing_comments
             /\ {comments[1].posts[k].row : k \in DOMAIN comments[1].posts}
                  = RowsNeedingComment
             /\ Len(comments[1].posts) = Cardinality(RowsNeedingComment)

\* C30: as long as reading the file has not failed, comments_added + errors
\* <= features_needing_comments <= total_features; a failed read adds one
\* error, and nothing else does; a live run that has read all the rows ends
\* with comments_added + errors = features_needing_comments and one post
\* for each row that needs a comment.
C30_StatsBounds ==
  LET st == comments[1].stats
      failed == IF comments[1].read_failed THEN 1 ELSE 0
  IN /\ st.comments_added + st.errors <= st.features_needing_comments + failed
     /\ comments[1].read_failed => comments[1].pc = "returned"
     /\ st.features_needing_comments <= st.total_features
     /\ st.total_features <= Len(comments[1].csv)
     /\ (comments[1].pc = "returned" /\ comments[1].add_comments
           /\ ~comments[1].dry_run_comments /\ ~comments[1].read_failed)
          => /\ st.comments_added + st.errors = st.features_needing_comments
             /\ {comments[1].posts[k].row : k \in DOMAIN comments[1].posts}
                  = RowsNeedingComment
             /\ Len(comments[1].posts) = Cardinality(RowsNeedingComment)

\* A live run whose file could not be opened: one error and no row counted
C30_Witness ==
  /\ comments[1].pc = "returned"
  /\ ~comments[1].dry_run
  /\ comments[1].read_failed
  /\ comments[1].stats.errors = 1
  /\ comments[1].stats.features_needing_comments = 0

(***************************************************************************)
(* The extracted section contents, in SpecRecord                           *)
(***************************************************************************)
\* The content of C23: from just after the first case-insensitive
\* occurrence of the header to the next line that starts with a capital
\* letter and holds a colon, or to the end of the text; trimmed; empty when
\* the header does not occur
SectionAsStated(text, header) ==
  LET n == Len(text)
      ltext == lower(text)
      lheader == lower(header)
      occurrences == {s \in 1..(n - Len(header) + 1) :
                        \A i \in 1..Len(header) : ltext[s + i - 1] = lheader[i]}
  IN IF occurrences = {} THEN <<>>
     ELSE LET start == SetMin(occurrences) + Len(header)
              LineEnd(q) == SetMin({k \in q..(n + 1) : k = n + 1 \/ text[k] = NL})
              header_lines ==
                {q \in start..n :
                   /\ q > 1
                   /\ text[q - 1] = NL
                   /\ text[q] \in {UpperCase[i] : i \in DOMAIN UpperCase}
                   /\ \E k \in (q + 1)..(LineEnd(q) - 1) : text[k] = ":"}
              stop == IF header_lines = {} THEN n + 1 ELSE SetMin(header_lines)
          IN strip(SubSeq(text, start, stop - 1))

\* C23 as stated: both extractors give, for every section, the content
\* between its header and the next header line or the end of the text.
C23_AsStated ==
  (jres # NoResult /\ rres # NoResult /\ ~tdesc.null)
    => LET description == RecordDescription(tdesc)
       IN \A i \in DOMAIN TEMPLATE_SECTIONS :
            LET stated == SectionAsStated(description, TEMPLATE_SECTIONS[i].header)
            IN /\ extract_template_sections(description)[i] = stated
               /\ parse_template_sections(description).content[i] = stated

\* A validated description that ends with the Success Criteria section and
\* has no blank line after it: extract_template_sections gives the
\* section's text, parse_template_sections the empty string
C23_Observed ==
  /\ jres # NoResult
  /\ rres # NoResult
  /\ ~tdesc.null
  /\ ~tdesc.trailing
  /\ tdesc.bodies = <<3, 0, 0, 3, 0, 0>>
  /\ LET description == RecordDescription(tdesc)
     IN /\ SectionAsStated(description, HdrSuccessCriteria) = BodyKpiZ
        /\ extract_template_sections(description)[4] = BodyKpiZ
        /\ parse_template_sections(description).content[4] = <<>>
        /\ parse_template_sections(description).content[1] = BodyKpiZ

(***************************************************************************)
(* The record without a description, in SpecRecord                         *)
(***************************************************************************)
\* C24: a record whose description is null is validated like the record
\* whose description is the empty string: by both validators every section
\* has empty content and the four required sections count as missing.
C24_NullAsEmpty ==
  /\ (tdesc.null /\ jres # NoResult)
       => /\ jres[1] = validate_feature(<<>>)
          /\ \A i \in DOMAIN TEMPLATE_SECTIONS : jres[1].content[i] = <<>>
          /\ jres[1].required_missing = 4
          /\ ~jres[1].overall_valid
  /\ (tdesc.null /\ rres # NoResult)
       => /\ rres[1] = validate_feature_template(<<>>)
          /\ \A i \in DOMAIN section_patterns : rres[1].sections[i].content_length = 0
          /\ rres[1].required_sections_valid = 0
          /\ rres[1].missing_required = <<1, 2, 3, 4>>

\* The record with a null description, validated by both validators
C24_Witness ==
  /\ tdesc.null
  /\ RecordDescription(tdesc) = None
  /\ jres # NoResult
  /\ rres # NoResult
  /\ jres[1].required_missing = 4
  /\ rres[1].required_sections_valid = 0

(***************************************************************************)
(* SpecDaily: daily_validation.py, entered through main with the two       *)
(* command-line flags or through run_daily_validation itself, with         *)
(* JIRA_TOKEN unset, empty or set, and every end of the launched report    *)
(* generator.                                                              *)
(***************************************************************************)
\* The command without a comment option (lines 47-52)
base_cmd ==
  <<"python", "rox_csv_generator.py", "--jira-url", "https://issues.redhat.com",
    "--ollama-url", "http://localhost:11434", "--ollama-model", DefaultModel>>

\* the command built with --add-comments whatever dry_run is
build_cmd_AlwaysLive(dry_run, skip_comments) ==
  IF ~skip_comments THEN Append(base_cmd, "--add-comments") ELSE base_cmd

\* Lines 47-58: the command of the report generator
build_cmd(dry_run, skip_comments) ==
  IF ~skip_comments
  THEN IF dry_run THEN Append(base_cmd, "--dry-run-comments")
       ELSE Append(base_cmd, "--add-comments")
  ELSE base_cmd

\* os.getenv('JIRA_TOKEN'): None when unset
TokenStates == {"unset", "empty", "set"}

\* How the launched report generator ends: its exit code (main returns 0,
\* 1 or 130), death by a signal (subprocess gives the negated signal
\* number), or Ctrl-C reaching run_daily_validation while it waits
ChildEnds == {"exit_0", "exit_1", "exit_130", "killed", "KeyboardInterrupt"}

\* Lines 64-93: the return value of run_daily_validation after the launch
daily_return(child) ==
  IF child = "exit_0" THEN 0
  ELSE IF child = "exit_1" THEN 1
  ELSE IF child = "exit_130" THEN 130
  ELSE IF child = "killed" THEN 0 - 9
  ELSE IF child = "KeyboardInterrupt" THEN 130
  ELSE 1

DInit ==
  /\ \E entry \in {"main", "run_daily_validation"}, dry_run \in BOOLEAN,
        skip_comments \in BOOLEAN, token \in TokenStates :
       daily = <<[pc |-> entry, entry |-> entry, dry_run |-> dry_run,
                  skip_comments |-> skip_comments, token |-> token,
                  launched |-> <<>>, child |-> "none", returned |-> <<>>]>>
  /\ comments = NoResult
  /\ pager = NoResult
  /\ TemplateIdle
  /\ ScoreIdle
  /\ CacheIdle
  /\ ReportIdle
  /\ SectionIdle

\* main, lines 122-131: the two flags exclude each other
DailyMain ==
  /\ daily[1].pc = "main"
  /\ daily' = IF daily[1].dry_run /\ daily[1].skip_comments
              THEN <<[daily[1] EXCEPT !.pc = "returned", !.returned = <<1>>]>>
              ELSE <<[daily[1] EXCEPT !.pc = "run_daily_validation"]>>
  /\ UNCHANGED <<templateVars, comp, cacheVars, report, sect, tscore, comments, pager>>

\* Lines 36-41: without a token nothing is launched
CheckEnvironment ==
  /\ daily[1].pc = "run_daily_validation"
  /\ daily' = IF daily[1].token \in {"unset", "empty"}
              THEN <<[daily[1] EXCEPT !.pc = "returned", !.returned = <<1>>]>>
              ELSE <<[daily[1] EXCEPT !.pc = "launch"]>>
  /\ UNCHANGED <<templateVars, comp, cacheVars, report, sect, tscore, comments, pager>>

\* Lines 43-62: build the command and start it; subprocess.run raises
\* OSError when the interpreter cannot be started (lines 91-93 return 1)
LaunchReport ==
  /\ daily[1].pc = "launch"
  /\ \E started \in BOOLEAN :
       daily' =
         IF started
         THEN <<[daily[1] EXCEPT
                   !.pc = "child_running",
                   !.launched = <<build_cmd(daily[1].dry_run, daily[1].skip_comments)>>]>>
         ELSE <<[daily[1] EXCEPT !.pc = "returned", !.child = "raises_OSError",
                                 !.returned = <<daily_return("raises_OSError")>>]>>
  /\ UNCHANGED <<templateVars, comp, cacheVars, report, sect, tscore, comments, pager>>

\* Lines 62-93: the child ends and run_daily_validation returns
ChildEnd ==
  /\ daily[1].pc = "child_running"
  /\ \E child \in ChildEnds :
       daily' = <<[daily[1] EXCEPT !.pc = "returned", !.child = child,
                                   !.returned = <<daily_return(child)>>]>>
  /\ UNCHANGED <<templateVars, comp, cacheVars, report, sect, tscore, comments, pager>>

DNext == DailyMain \/ CheckEnvironment \/ LaunchReport \/ ChildEnd

SpecDaily == DInit /\ [][DNext]_vars

\* Whether the launched command carries the option
Launched(option) ==
  /\ daily[1].launched # <<>>
  /\ \E k \in DOMAIN daily[1].launched[1] : daily[1].launched[1][k] = option

\* C26: the report generator is launched with --add-comments exactly when
\* neither dry_run nor skip_comments is set, with --dry-run-comments exactly
\* when dry_run is set and skip_comments is not, with neither when
\* skip_comments is set; without JIRA_TOKEN nothing is launched and
\* run_daily_validation returns 1.
C26_CommentFlags ==
  /\ daily[1].launched # <<>>
       => /\ Launched("--add-comments")
               <=> (~daily[1].dry_run /\ ~daily[1].skip_comments)
          /\ Launched("--dry-run-comments")
               <=> (daily[1].dry_run /\ ~daily[1].skip_comments)
          /\ daily[1].skip_comments
               => ~Launched("--add-comments") /\ ~Launched("--dry-run-comments")
          /\ daily[1].token = "set"
  /\ (daily[1].pc = "returned" /\ daily[1].token = "unset")
       => /\ daily[1].launched = <<>>
          /\ daily[1].returned = <<1>>

\* run_daily_validation(dry_run=True) has launched the report generator
\* with --dry-run-comments and returned its exit code 0
C26_Witness ==
  /\ daily[1].pc = "returned"
  /\ daily[1].dry_run
  /\ ~daily[1].skip_comments
  /\ Launched("--dry-run-comments")
  /\ ~Launched("--add-comments")
  /\ daily[1].returned = <<0>>

(***************************************************************************)
(* SpecPages: the paging loop of get_rox_4_10_features and of              *)
(* JiraFeatureValidator.get_4_10_features against a Jira that holds N      *)
(* matching issues and serves them in one order, each request being        *)
(* answered, refused with an HTTP error or failing in the session.         *)
(***************************************************************************)
\* Bound on the number of matching issues Jira holds
MaxIssues == 120

\* max_results of the search loop
max_results == 50

\* The page Jira serves for startAt and maxResults out of N issues; an
\* issue is named by its place in the server's order
server_page(N, start_at, size) ==
  LET count == IF N - start_at < 0 THEN 0
               ELSE IF N - start_at < size THEN N - start_at ELSE size
  IN [k \in 1..count |-> start_at + k]

\* What happens to a search request
SearchAnswers == {"ok", "http_error", "raises"}

\* a loop that also stops after a full page
is_last_page_Inclusive(issues) == Len(issues) <= max_results

\* if len(issues) < max_results: break
is_last_page(issues) == Len(issues) < max_results

PInit ==
  /\ \E N \in 0..MaxIssues, client \in {"rox_csv_generator", "jira_feature_validator"} :
       pager = <<[pc |-> "loop", client |-> client, N |-> N, start_at |-> 0,
                  all_issues |-> <<>>, requests |-> <<>>, failed |-> FALSE]>>
  /\ comments = NoResult
  /\ daily = NoResult
  /\ TemplateIdle
  /\ ScoreIdle
  /\ CacheIdle
  /\ ReportIdle
  /\ SectionIdle

\* One iteration of the while loop (rox_csv_generator.py lines 149-187,
\* jira_feature_validator.py lines 123-151). requests and failed are not
\* variables of the code: they record the startAt values sent and that a
\* request was not answered with a page.
FetchPage ==
  /\ pager[1].pc = "loop"
  /\ \E answer \in SearchAnswers :
       LET p == pager[1]
           asked == [p EXCEPT !.requests = Append(@, p.start_at)]
           issues == server_page(p.N, p.start_at, max_results)
       IN pager' =
            IF answer # "ok"
            THEN <<[asked EXCEPT !.pc = "returned", !.failed = TRUE]>>
            ELSE IF p.client = "rox_csv_generator" /\ issues = <<>>
            THEN <<[asked EXCEPT !.pc = "returned"]>>
            ELSE IF is_last_page(issues)
            THEN <<[asked EXCEPT !.pc = "returned", !.all_issues = @ \o issues]>>
            ELSE <<[asked EXCEPT !.all_issues = @ \o issues,
                                 !.start_at = @ + max_results]>>
  /\ UNCHANGED <<templateVars, comp, cacheVars, report, sect, tscore, comments, daily>>

PNext == FetchPage

SpecPages == PInit /\ [][PNext]_vars /\ WF_vars(PNext)

\* C27: the requests go to startAt = 0, 50, 100, ... in this order; the
\* loop ends; and when every request was answered it ends at the first
\* page with fewer than 50 issues and returns the N issues once each in the
\* server's order.
C27_PagesInOrder ==
  /\ [](/\ \A k \in DOMAIN pager[1].requests :
              pager[1].requests[k] = (k - 1) * max_results
        /\ (pager[1].pc = "returned" /\ ~pager[1].failed)
             => /\ pager[1].all_issues = [k \in 1..pager[1].N |-> k]
                /\ Len(pager[1].requests) = (pager[1].N \div max_results) + 1)
  /\ <>(pager[1].pc = "returned")

\* 100 issues: two full pages, the request at startAt = 100 answered by an
\* empty page, and the 100 issues returned
C27_Witness ==
  /\ pager[1].pc = "returned"
  /\ ~pager[1].failed
  /\ pager[1].N = 100
  /\ pager[1].requests = <<0, 50, 100>>
  /\ Len(pager[1].all_issues) = 100

C29_AsStated ==
  (jres # NoResult /\ rres # NoResult)
    => /\ \A i \in required_sections : rres[1].sections[i].valid <=> jres[1].valid[i]
       /\ rres[1].required_sections_valid = 4 - jres[1].required_missing

\* The description with the four required sections filled in and no blank
\* line at its end: complete for validate_feature, one required section
\* invalid for validate_feature_template
C29_Observed ==
  /\ jres # NoResult
  /\ rres # NoResult
  /\ tdesc = [bodies |-> <<3, 3, 3, 3, 0, 0>>, trailing |-> FALSE, null |-> FALSE]
  /\ jres[1].required_missing = 0
  /\ jres[1].overall_valid
  /\ jres[1].valid[4]
  /\ ~rres[1].sections[4].valid
  /\ rres[1].required_sections_valid = 3

====
